---- MODULE Spec2Model ----
(***************************************************************************)
(* canvasgen: the time-domain evaluation engine of src/src/lib/core.ts.    *)
(*                                                                         *)
(* An Animation is an immutable tree built once and then queried with      *)
(* at(time) and isSameAt(a, b).  A node is a record; its `kind` names the  *)
(* class.  Values produced by at() are records too, so that values of      *)
(* different shapes compare as unequal:                                    *)
(*   [num, den]   a number, kept as an exact fraction in lowest terms      *)
(*                (the code uses IEEE doubles; the fractions used here are *)
(*                small enough to be exact there as far as equality goes)  *)
(*   [nan]        the number NaN                                           *)
(*   [list]       an array of values                                       *)
(*   [fn, arg]    the result of a derive() callback applied to a value     *)
(*   [err]        at() did not return: the error thrown by assertTime      *)
(***************************************************************************)
EXTENDS Integers, Sequences, FiniteSets, TLC

VARIABLES anim, op, qa, qb, resVal, resSame, asked, context, calls

vars == <<anim, op, qa, qb, resVal, resSame, asked, context, calls>>

(***************************************************************************)
(* Bounds of the model.                                                    *)
(***************************************************************************)
MaxDur == 2
MaxBefore == 2
MaxTime == 7
MaxFrame == 6
MaxPad == 2

\* The instants queried: some before zero, some past every duration built.
Instants == (0 - MaxBefore)..MaxTime

(***************************************************************************)
(* Duration.  `frame` is a JavaScript number: an integer here, or NaN      *)
(* (the result of wrap() by a zero Duration).                              *)
(***************************************************************************)
NaN == -1000000

IsNaN(x) == x = NaN

Abs(x) == IF x < 0 THEN -x ELSE x

\* JavaScript's % on integers: the sign of the result follows the dividend;
\* x % 0 is NaN.
JsRem(x, m) ==
    IF IsNaN(x) \/ IsNaN(m) \/ m = 0 THEN NaN
    ELSE IF x < 0 THEN -((-x) % Abs(m)) ELSE x % Abs(m)

MathMin(x, y) == IF IsNaN(x) \/ IsNaN(y) THEN NaN ELSE IF x < y THEN x ELSE y

MathMax(x, y) == IF IsNaN(x) \/ IsNaN(y) THEN NaN ELSE IF x > y THEN x ELSE y

DurationZero == 0

DurationAdd(x, y) == IF IsNaN(x) \/ IsNaN(y) THEN NaN ELSE x + y

DurationSubtract(x, y) == IF IsNaN(x) \/ IsNaN(y) THEN NaN ELSE x - y

DurationIsLessThan(x, y) == ~IsNaN(x) /\ ~IsNaN(y) /\ x < y

DurationIsGreaterThan(x, y) == ~IsNaN(x) /\ ~IsNaN(y) /\ x > y

DurationIsEqualTo(x, y) == ~IsNaN(x) /\ ~IsNaN(y) /\ x = y

DurationIsZero(x) == ~IsNaN(x) /\ x = 0

DurationClamp(x, min, max) == MathMax(min, MathMin(max, x))

\* A bug: the remainder alone, which is negative for a negative frame.
DurationWrapRem(x, max) == JsRem(x, max)

DurationWrap(x, max) ==
    LET r == JsRem(x, max)
    IN  JsRem(IF IsNaN(r) \/ IsNaN(max) THEN NaN ELSE r + max, max)

DurationMax(x, y) == MathMax(x, y)

(***************************************************************************)
(* Numbers as exact fractions.                                             *)
(***************************************************************************)
RECURSIVE Gcd(_, _)
Gcd(x, y) == IF y = 0 THEN x ELSE Gcd(y, x % y)

NanValue == [nan |-> TRUE]

Frac(n, d) ==
    LET g == Gcd(Abs(n), Abs(d))
        s == IF d < 0 THEN -1 ELSE 1
    IN  [num |-> (s * n) \div g, den |-> (s * d) \div g]

Num(n) == IF IsNaN(n) THEN NanValue ELSE [num |-> n, den |-> 1]

IsNanValue(v) == "nan" \in DOMAIN v

FracAdd(x, y) ==
    IF IsNanValue(x) \/ IsNanValue(y) THEN NanValue
    ELSE Frac(x.num * y.den + y.num * x.den, x.den * y.den)

FracMul(x, y) ==
    IF IsNanValue(x) \/ IsNanValue(y) THEN NanValue
    ELSE Frac(x.num * y.num, x.den * y.den)

\* Duration.dividedBy: this.frame / divisor.frame (divisor is never zero
\* where the code calls it, see TweenAtTransformed).
DurationDividedBy(x, divisor) ==
    IF IsNaN(x) \/ IsNaN(divisor) \/ divisor = 0 THEN NanValue
    ELSE Frac(x, divisor)

\* lerpNumber: a + (b - a) * t
lerpNumber(a, b, t) == FracAdd(Num(a), FracMul(Num(b - a), t))

\* The easings of easings.ts used here; "none" is an absent easing.
ApplyEasing(easing, input) ==
    CASE easing = "none" -> input
      [] easing = "linear" -> input
      [] easing = "easeIn" -> FracMul(input, input)

(***************************************************************************)
(* The error thrown by assertTime, as the outcome of at().                 *)
(***************************************************************************)
OutOfBounds == [err |-> "OutOfBounds"]

IsError(v) == "err" \in DOMAIN v

(***************************************************************************)
(* TimeTransformStrategy: strategy(animation)(time).                       *)
(***************************************************************************)
delegateTime(duration, time) == time

clampTime(duration, time) == DurationClamp(time, DurationZero, duration)

\* A bug: one duration is taken off an instant past the end, once.
wrapTimeSubtracts(duration, time) ==
    IF DurationIsGreaterThan(time, duration)
    THEN DurationSubtract(time, duration)
    ELSE time

wrapTime(duration, time) == DurationWrap(time, duration)

resetToZeroTime(duration, time) ==
    IF DurationIsGreaterThan(time, duration) THEN DurationZero ELSE time

\* A bug: the end instant is kept, as resetToZeroTime keeps it.
resetToZeroInclusiveTimeKeepsEnd(duration, time) ==
    IF DurationIsGreaterThan(time, duration) THEN DurationZero ELSE time

resetToZeroInclusiveTime(duration, time) ==
    IF DurationIsLessThan(time, duration) THEN time ELSE DurationZero

\* A strategy written by a caller of the library (TimeTransformStrategy is
\* any function of the animation): play backwards, duration - time.
reverseTime(duration, time) == DurationSubtract(duration, time)

\* assertTime throws exactly when this holds, and returns time otherwise.
assertTimeThrows(duration, time) ==
    DurationIsLessThan(time, DurationZero) \/ DurationIsGreaterThan(time, duration)

\* this.transform of a node: its strategy bound to the node itself.
Transform(A, time) ==
    CASE A.strategy = "delegateTime" -> delegateTime(A.duration, time)
      [] A.strategy = "clampTime" -> clampTime(A.duration, time)
      [] A.strategy = "wrapTime" -> wrapTime(A.duration, time)
      [] A.strategy = "assertTime" -> time
      [] A.strategy = "resetToZeroTime" -> resetToZeroTime(A.duration, time)
      [] A.strategy = "resetToZeroInclusiveTime" ->
            resetToZeroInclusiveTime(A.duration, time)
      [] A.strategy = "reverseTime" -> reverseTime(A.duration, time)

TransformThrows(A, time) ==
    A.strategy = "assertTime" /\ assertTimeThrows(A.duration, time)

(***************************************************************************)
(* Constructors.  `duration` and `strategy` are fixed here and never       *)
(* change afterwards.                                                      *)
(***************************************************************************)
RECURSIVE SumDurations(_, _)
\* reduce((sum, anim) => sum.add(anim.duration), Duration.zero) over the
\* first i elements.
SumDurations(animations, i) ==
    IF i = 0 THEN DurationZero
    ELSE DurationAdd(SumDurations(animations, i - 1), animations[i].duration)

RECURSIVE MaxDurations(_, _)
\* reduce((max, anim) => Duration.max(max, anim.duration), Duration.zero)
MaxDurations(source, i) ==
    IF i = 0 THEN DurationZero
    ELSE DurationMax(MaxDurations(source, i - 1), source[i].duration)

ConstantAnimation(value, duration) ==
    [kind |-> "Constant", duration |-> duration, strategy |-> "delegateTime",
     value |-> value]

\* new ConstantAnimation(value): the duration parameter takes its default.
ConstantAnimationDefault(value) == ConstantAnimation(value, DurationZero)

Tween(from, to, duration, easing, strategy) ==
    [kind |-> "Tween", duration |-> duration, strategy |-> strategy,
     from |-> from, to |-> to, easing |-> easing]

CallbackAnimation(duration, strategy, callback, sameAtCallback) ==
    [kind |-> "Callback", duration |-> duration, strategy |-> strategy,
     callback |-> callback, sameAtCallback |-> sameAtCallback]

\* A bug: a derived animation with the default strategy instead of its
\* source's.
DerivedAnimationClamp(source, callback) ==
    [kind |-> "Derived", duration |-> source.duration,
     strategy |-> "clampTime", source |-> source, callback |-> callback]

DerivedAnimation(source, callback) ==
    [kind |-> "Derived", duration |-> source.duration,
     strategy |-> source.strategy, source |-> source, callback |-> callback]

ArrayAnimation(source, strategy) ==
    [kind |-> "Array", duration |-> MaxDurations(source, Len(source)),
     strategy |-> strategy, source |-> source]

SequenceAnimation(animations, strategy) ==
    [kind |-> "Sequence", duration |-> SumDurations(animations, Len(animations)),
     strategy |-> strategy, animations |-> animations]

\* A Timed<T>: a value with a time.
Timed(value, time) == [value |-> value, time |-> time]

SwitchAnimation(end, timedAnimations, strategy) ==
    [kind |-> "Switch", duration |-> end, strategy |-> strategy,
     timedAnimations |-> timedAnimations]

\* windowBetween(from, to), applied to time.
windowBetween(from, to, time) ==
    DurationClamp(DurationSubtract(time, from), DurationZero,
                  DurationSubtract(to, from))

WindowedEndTime(timedAnimations) ==
    IF Len(timedAnimations) = 0 THEN DurationZero
    ELSE LET lastAnim == timedAnimations[Len(timedAnimations)]
         IN  DurationAdd(lastAnim.time, lastAnim.value.duration)

WindowedAnimation(timedAnimations, strategy) ==
    [kind |-> "Windowed", duration |-> WindowedEndTime(timedAnimations),
     strategy |-> strategy, timedAnimations |-> timedAnimations,
     windows |-> [i \in 1..Len(timedAnimations) |->
                    [from |-> timedAnimations[i].time,
                     to |-> DurationAdd(timedAnimations[i].time,
                                        timedAnimations[i].value.duration)]]]

\* A bug: nextStart is never advanced, every window starts at zero.
StaggeredAnimationSameStart(animations, strategy) ==
    [kind |-> "Staggered", duration |-> SumDurations(animations, Len(animations)),
     strategy |-> strategy, animations |-> animations,
     windows |-> [i \in 1..Len(animations) |->
                    [from |-> DurationZero, to |-> animations[i].duration]]]

StaggeredAnimation(animations, strategy) ==
    [kind |-> "Staggered", duration |-> SumDurations(animations, Len(animations)),
     strategy |-> strategy, animations |-> animations,
     windows |-> [i \in 1..Len(animations) |->
                    [from |-> SumDurations(animations, i - 1),
                     to |-> DurationAdd(SumDurations(animations, i - 1),
                                        animations[i].duration)]]]

\* The animations a node holds, in order.
Children(A) ==
    CASE A.kind = "Derived" -> <<A.source>>
      [] A.kind = "Array" -> A.source
      [] A.kind \in {"Sequence", "Staggered"} -> A.animations
      [] A.kind \in {"Switch", "Windowed"} ->
            [i \in 1..Len(A.timedAnimations) |-> A.timedAnimations[i].value]
      [] A.kind = "Callback" /\ A.callback.fn \in {"extend", "startWithEmpty"} ->
            <<A.callback.source>>
      [] OTHER -> <<>>

\* Animation.derive
Derive(A, callback) == DerivedAnimation(A, callback)

\* startWithEmpty(source)
startWithEmpty(source) ==
    CallbackAnimation(source.duration, source.strategy,
                      [fn |-> "startWithEmpty", source |-> source],
                      [fn |-> "startWithEmpty", source |-> source])

\* paintAll(painters)
paintAll(painters) == Derive(painters, "paintAll")

\* Animation.extend: a CallbackAnimation whose callback holds the animation
\* and the padding, and which is given no sameAtCallback.
Extend(A, before, after, strategy) ==
    CallbackAnimation(DurationAdd(DurationAdd(A.duration, before), after),
                      strategy,
                      [fn |-> "extend", source |-> A, before |-> before,
                       after |-> after],
                      [fn |-> "none"])

(***************************************************************************)
(* Callbacks.  A derive() callback is a pure function of a value: "box" is *)
(* injective, "unit" forgets its argument.  An Animatable given to a       *)
(* CallbackAnimation is a pure function of the time: "frame" returns the   *)
(* frame number.                                                           *)
(***************************************************************************)
DeriveCallbacks == {"box", "unit"}

ApplyCallback(callback, value) ==
    CASE callback = "box" -> [fn |-> "box", arg |-> value]
      [] callback = "paintAll" -> [fn |-> "paintAll", arg |-> value]
      [] OTHER -> [fn |-> "unit", arg |-> Num(0)]

\* The painter invocations made while callback(value) runs: each callback
\* returns without calling its argument, paintAll's with a closure over it.
CallbackInvokes(callback, value) == <<>>

\* A Painter is a function of the drawing context whose effect is the call
\* it makes on it: [painter |-> id] draws with brush id.  noopPainter draws
\* nothing.
Contexts == {"ctx1", "ctx2"}

NoContext == "none"

noopPainter == [noop |-> TRUE]

IsPainter(v) ==
    \/ v = noopPainter
    \/ "painter" \in DOMAIN v
    \/ ("fn" \in DOMAIN v /\ v.fn = "paintAll")

RECURSIVE InvokeAll(_, _, _)

\* A bug: the combined painter calls the painters of the list last to first.
InvokePainterReversed(painter, ctx) ==
    IF painter = noopPainter THEN <<>>
    ELSE IF "painter" \in DOMAIN painter
    THEN <<[painter |-> painter.painter, context |-> ctx]>>
    ELSE LET value == painter.arg.list
         IN  InvokeAll([i \in 1..Len(value) |-> value[Len(value) + 1 - i]],
                       Len(value), ctx)

\* painter(ctx): the calls made, in order.  The closure of paintAll runs
\* for (const painter of value) painter(context).
InvokePainter(painter, ctx) ==
    IF painter = noopPainter THEN <<>>
    ELSE IF "painter" \in DOMAIN painter
    THEN <<[painter |-> painter.painter, context |-> ctx]>>
    ELSE InvokeAll(painter.arg.list, Len(painter.arg.list), ctx)

\* The calls of the first n painters of the list.
InvokeAll(value, n, ctx) ==
    IF n = 0 THEN <<>>
    ELSE InvokeAll(value, n - 1, ctx) \o InvokePainter(value[n], ctx)

(***************************************************************************)
(* Evaluation.                                                             *)
(***************************************************************************)
RECURSIVE At(_, _)
RECURSIVE IsSameAt(_, _, _)

TypeError == [err |-> "TypeError"]

\* A bug: the list is returned with the failed elements in it.
ListOrErrorPartial(values) == [list |-> values]

\* The error of the first element that threw, or the list of values.
ListOrError(values) ==
    IF \E i \in 1..Len(values) : IsError(values[i])
    THEN values[CHOOSE i \in 1..Len(values) :
                  /\ IsError(values[i])
                  /\ \A j \in 1..(i - 1) : ~IsError(values[j])]
    ELSE [list |-> values]

\* A bug: extend() that does not subtract the padding before.
CallAnimatableUnshifted(callback, time) ==
    CASE callback.fn = "frame" -> Num(time)
      [] callback.fn = "extend" -> At(callback.source, time)

\* callback(time) of a CallbackAnimation.
CallAnimatable(callback, time) ==
    CASE callback.fn = "frame" -> Num(time)
      [] callback.fn = "brush" -> [painter |-> time]
      [] callback.fn = "startWithEmpty" ->
            IF DurationIsGreaterThan(time, DurationZero)
            THEN At(callback.source, time)
            ELSE noopPainter
      [] callback.fn = "extend" ->
            At(callback.source, DurationSubtract(time, callback.before))

ConstantAt(A) == A.value

\* A bug: the easing is not applied to the progress.
TweenAtTransformedUneased(A, time) ==
    LET animation == IF DurationIsZero(A.duration) THEN Num(1)
                     ELSE DurationDividedBy(time, A.duration)
    IN  lerpNumber(A.from, A.to, animation)

\* A bug: the progress is time / duration also when the duration is zero.
TweenAtTransformedDivides(A, time) ==
    LET animation == DurationDividedBy(time, A.duration)
        easedAnimation == ApplyEasing(A.easing, animation)
    IN  lerpNumber(A.from, A.to, easedAnimation)

TweenAtTransformed(A, time) ==
    LET animation == IF DurationIsZero(A.duration) THEN Num(1)
                     ELSE DurationDividedBy(time, A.duration)
        easedAnimation == ApplyEasing(A.easing, animation)
    IN  lerpNumber(A.from, A.to, easedAnimation)

CallbackAtTransformed(A, time) ==
    IF TransformThrows(A, time) THEN OutOfBounds
    ELSE CallAnimatable(A.callback, Transform(A, time))

DerivedAtTransformed(A, time) ==
    LET v == At(A.source, time)
    IN  IF IsError(v) THEN v ELSE ApplyCallback(A.callback, v)

\* A bug: the values in reverse order of the children.
ArrayAtTransformedReversed(A, time) ==
    IF TransformThrows(A, time) THEN OutOfBounds
    ELSE ListOrError([i \in 1..Len(A.source) |->
                        At(A.source[Len(A.source) + 1 - i], Transform(A, time))])

ArrayAtTransformed(A, time) ==
    IF TransformThrows(A, time) THEN OutOfBounds
    ELSE ListOrError([i \in 1..Len(A.source) |->
                        At(A.source[i], Transform(A, time))])

RECURSIVE SequenceLoopInclusive(_, _, _)
\* A bug: a child's window that includes its end instant.
SequenceLoopInclusive(animations, time, i) ==
    IF i > Len(animations) THEN 0
    ELSE IF ~DurationIsGreaterThan(time, SumDurations(animations, i)) THEN i
    ELSE SequenceLoopInclusive(animations, time, i + 1)

RECURSIVE SequenceLoop(_, _, _)
\* The for loop of SequenceAnimation.atTransformed from element i on; 0 when
\* the loop ends without returning.
SequenceLoop(animations, time, i) ==
    IF i > Len(animations) THEN 0
    ELSE IF DurationIsLessThan(time, SumDurations(animations, i)) THEN i
    ELSE SequenceLoop(animations, time, i + 1)

\* A bug: past the end, the last child is evaluated at the sequence's time
\* instead of its own.
SequenceAtTransformedLastRaw(A, time) ==
    LET n == Len(A.animations)
        k == SequenceLoop(A.animations, time, 1)
    IN  IF k # 0
        THEN At(A.animations[k],
                DurationSubtract(time,
                    DurationSubtract(SumDurations(A.animations, k),
                                     A.animations[k].duration)))
        ELSE IF n = 0 THEN TypeError
        ELSE At(A.animations[n], time)

SequenceAtTransformed(A, time) ==
    LET n == Len(A.animations)
        k == SequenceLoop(A.animations, time, 1)
        nextStart(i) == SumDurations(A.animations, i)
    IN  IF k # 0
        THEN At(A.animations[k],
                DurationSubtract(time,
                    DurationSubtract(nextStart(k), A.animations[k].duration)))
        ELSE IF n = 0 THEN TypeError
        ELSE At(A.animations[n],
                DurationSubtract(time,
                    DurationSubtract(nextStart(n), A.animations[n].duration)))

\* SwitchAnimation.getAnimAt, as the (1-based) position of the element it
\* returns; 0 when the list is empty.
getAnimAt(A, time) ==
    LET n == Len(A.timedAnimations)
        found == {i \in 1..n :
                    DurationIsGreaterThan(A.timedAnimations[i].time, time)}
        index == IF found = {} THEN -1
                 ELSE (CHOOSE i \in found : \A j \in found : i <= j) - 1
    IN  IF index = -1 THEN n
        ELSE IF index = 0 THEN n
        ELSE index

SwitchAtTransformed(A, time) ==
    LET k == getAnimAt(A, time)
    IN  IF k = 0 THEN TypeError
        ELSE At(A.timedAnimations[k].value,
                DurationSubtract(time, A.timedAnimations[k].time))

ApplyWindow(w, time) == windowBetween(w.from, w.to, time)

WindowedAtTransformed(A, time) ==
    ListOrError([i \in 1..Len(A.timedAnimations) |->
                   At(A.timedAnimations[i].value, ApplyWindow(A.windows[i], time))])

StaggeredAtTransformed(A, time) ==
    ListOrError([i \in 1..Len(A.animations) |->
                   At(A.animations[i], ApplyWindow(A.windows[i], time))])

AtTransformed(A, time) ==
    CASE A.kind = "Tween" -> TweenAtTransformed(A, time)
      [] A.kind = "Callback" -> CallbackAtTransformed(A, time)
      [] A.kind = "Derived" -> DerivedAtTransformed(A, time)
      [] A.kind = "Array" -> ArrayAtTransformed(A, time)
      [] A.kind = "Sequence" -> SequenceAtTransformed(A, time)
      [] A.kind = "Switch" -> SwitchAtTransformed(A, time)
      [] A.kind = "Windowed" -> WindowedAtTransformed(A, time)
      [] A.kind = "Staggered" -> StaggeredAtTransformed(A, time)

\* TransformingAnimation.at
TransformingAt(A, time) ==
    IF TransformThrows(A, time) THEN OutOfBounds
    ELSE AtTransformed(A, Transform(A, time))

At(A, time) ==
    IF A.kind = "Constant" THEN ConstantAt(A) ELSE TransformingAt(A, time)

(***************************************************************************)
(* isSameAt: the boolean it returns when it returns (IsSameAtThrows, below, *)
(* tells when it throws instead).                                          *)
(***************************************************************************)
\* A bug: the predicate of startWithEmpty that asks the source whenever the
\* instants differ and are not both negative.
CallSameAtCallbackNegatives(sameAtCallback, a, b) ==
    CASE sameAtCallback.fn = "isEqualTo" -> DurationIsEqualTo(a, b)
      [] sameAtCallback.fn = "startWithEmpty" ->
            \/ DurationIsEqualTo(a, b)
            \/ (DurationIsLessThan(a, DurationZero)
                    /\ DurationIsLessThan(b, DurationZero))
            \/ IsSameAt(sameAtCallback.source, a, b)

\* sameAtCallback(a, b) of a CallbackAnimation that was given one.
CallSameAtCallback(sameAtCallback, a, b) ==
    CASE sameAtCallback.fn = "isEqualTo" -> DurationIsEqualTo(a, b)
      [] sameAtCallback.fn = "startWithEmpty" ->
            LET isAZero == ~DurationIsGreaterThan(a, DurationZero)
                isBZero == ~DurationIsGreaterThan(b, DurationZero)
            IN  IF DurationIsEqualTo(a, b) THEN TRUE
                ELSE IF isAZero /\ isBZero THEN TRUE
                ELSE IF isAZero \/ isBZero THEN FALSE
                ELSE IsSameAt(sameAtCallback.source, a, b)

CallbackIsSameAtTransformed(A, a, b) ==
    IF A.sameAtCallback.fn # "none"
    THEN CallSameAtCallback(A.sameAtCallback, a, b)
    ELSE FALSE

DerivedIsSameAtTransformed(A, a, b) == IsSameAt(A.source, a, b)

\* A bug: only the first child is asked.
ArrayIsSameAtTransformedFirst(A, a, b) ==
    Len(A.source) = 0 \/ IsSameAt(A.source[1], a, b)

\* A bug: `some` where the code has `every`.
ArrayIsSameAtTransformedSome(A, a, b) ==
    \E i \in 1..Len(A.source) : IsSameAt(A.source[i], a, b)

ArrayIsSameAtTransformed(A, a, b) ==
    \A i \in 1..Len(A.source) : IsSameAt(A.source[i], a, b)

isSameAtTransformed(A, a, b) ==
    CASE A.kind = "Callback" -> CallbackIsSameAtTransformed(A, a, b)
      [] A.kind = "Derived" -> DerivedIsSameAtTransformed(A, a, b)
      [] A.kind = "Array" -> ArrayIsSameAtTransformed(A, a, b)
      [] OTHER -> FALSE

\* TransformingAnimation.isSameAt
TransformingIsSameAt(A, a, b) ==
    LET actualA == Transform(A, a)
        actualB == Transform(A, b)
    IN  IF DurationIsEqualTo(actualA, actualB) THEN TRUE
        ELSE isSameAtTransformed(A, actualA, actualB)

SwitchIsSameAt(A, a, b) ==
    LET animA == getAnimAt(A, a)
        animB == getAnimAt(A, b)
    IN  IF animA # animB THEN FALSE
        ELSE IsSameAt(A.timedAnimations[animA].value,
                      DurationSubtract(a, A.timedAnimations[animA].time),
                      DurationSubtract(b, A.timedAnimations[animA].time))

WindowedIsSameAt(A, a, b) ==
    IF DurationIsEqualTo(a, b) THEN TRUE
    ELSE \A i \in 1..Len(A.timedAnimations) :
            IsSameAt(A.timedAnimations[i].value,
                     ApplyWindow(A.windows[i], a), ApplyWindow(A.windows[i], b))

StaggeredIsSameAt(A, a, b) ==
    IF DurationIsEqualTo(a, b) THEN TRUE
    ELSE \A i \in 1..Len(A.animations) :
            IsSameAt(A.animations[i],
                     ApplyWindow(A.windows[i], a), ApplyWindow(A.windows[i], b))

\* A bug: a ConstantAnimation that compares the instants like any other node.
IsSameAtConstantCompares(A, a, b) ==
    CASE A.kind = "Constant" -> DurationIsEqualTo(a, b)
      [] A.kind = "Switch" -> SwitchIsSameAt(A, a, b)
      [] A.kind = "Windowed" -> WindowedIsSameAt(A, a, b)
      [] A.kind = "Staggered" -> StaggeredIsSameAt(A, a, b)
      [] OTHER -> TransformingIsSameAt(A, a, b)

IsSameAt(A, a, b) ==
    CASE A.kind = "Constant" -> TRUE
      [] A.kind = "Switch" -> SwitchIsSameAt(A, a, b)
      [] A.kind = "Windowed" -> WindowedIsSameAt(A, a, b)
      [] A.kind = "Staggered" -> StaggeredIsSameAt(A, a, b)
      [] OTHER -> TransformingIsSameAt(A, a, b)

(***************************************************************************)
(* Whether isSameAt throws instead of returning.  Array.every stops at the *)
(* first element for which the predicate is false.                         *)
(***************************************************************************)
RECURSIVE IsSameAtThrows(_, _, _)

\* source.every(p) throws when some call of p throws and every earlier call
\* returned true.
ArrayIsSameAtTransformedThrows(A, a, b) ==
    \E i \in 1..Len(A.source) :
        /\ IsSameAtThrows(A.source[i], a, b)
        /\ \A j \in 1..(i - 1) :
              ~IsSameAtThrows(A.source[j], a, b) /\ IsSameAt(A.source[j], a, b)

\* The predicate of startWithEmpty throws when source.isSameAt does, which it
\* calls for two different instants after 0.
CallSameAtCallbackThrows(sameAtCallback, a, b) ==
    /\ sameAtCallback.fn = "startWithEmpty"
    /\ ~DurationIsEqualTo(a, b)
    /\ DurationIsGreaterThan(a, DurationZero)
    /\ DurationIsGreaterThan(b, DurationZero)
    /\ IsSameAtThrows(sameAtCallback.source, a, b)

isSameAtTransformedThrows(A, a, b) ==
    CASE A.kind = "Derived" -> IsSameAtThrows(A.source, a, b)
      [] A.kind = "Callback" -> CallSameAtCallbackThrows(A.sameAtCallback, a, b)
      [] A.kind = "Array" -> ArrayIsSameAtTransformedThrows(A, a, b)
      [] OTHER -> FALSE

TransformingIsSameAtThrows(A, a, b) ==
    \/ TransformThrows(A, a)
    \/ TransformThrows(A, b)
    \/ /\ ~DurationIsEqualTo(Transform(A, a), Transform(A, b))
       /\ isSameAtTransformedThrows(A, Transform(A, a), Transform(A, b))

SwitchIsSameAtThrows(A, a, b) ==
    LET animA == getAnimAt(A, a)
        animB == getAnimAt(A, b)
    IN  \/ Len(A.timedAnimations) = 0
        \/ /\ animA = animB
           /\ IsSameAtThrows(A.timedAnimations[animA].value,
                             DurationSubtract(a, A.timedAnimations[animA].time),
                             DurationSubtract(b, A.timedAnimations[animA].time))

\* isSameAt of child i of a Windowed or Staggered animation, on the windowed
\* instants.
WindowChildIsSameAt(A, i, a, b) ==
    IsSameAt(Children(A)[i], ApplyWindow(A.windows[i], a),
             ApplyWindow(A.windows[i], b))

WindowChildIsSameAtThrows(A, i, a, b) ==
    IsSameAtThrows(Children(A)[i], ApplyWindow(A.windows[i], a),
                   ApplyWindow(A.windows[i], b))

WindowedIsSameAtThrows(A, a, b) ==
    /\ ~DurationIsEqualTo(a, b)
    /\ \E i \in 1..Len(A.windows) :
          /\ WindowChildIsSameAtThrows(A, i, a, b)
          /\ \A j \in 1..(i - 1) :
                ~WindowChildIsSameAtThrows(A, j, a, b)
                    /\ WindowChildIsSameAt(A, j, a, b)

StaggeredIsSameAtThrows(A, a, b) == WindowedIsSameAtThrows(A, a, b)

IsSameAtThrows(A, a, b) ==
    CASE A.kind = "Constant" -> FALSE
      [] A.kind = "Switch" -> SwitchIsSameAtThrows(A, a, b)
      [] A.kind = "Windowed" -> WindowedIsSameAtThrows(A, a, b)
      [] A.kind = "Staggered" -> StaggeredIsSameAtThrows(A, a, b)
      [] OTHER -> TransformingIsSameAtThrows(A, a, b)

(***************************************************************************)
(* The animations built in the configuration phase.                        *)
(***************************************************************************)
NamedStrategies ==
    {"delegateTime", "clampTime", "wrapTime", "resetToZeroTime",
     "resetToZeroInclusiveTime"}

Durations == 0..MaxDur

frame == [fn |-> "frame"]

noPredicate == [fn |-> "none"]

TweenLeaves ==
    {Tween(e[1], e[2], d, "none", s) :
        e \in {<<0, 1>>, <<1, 3>>}, d \in Durations, s \in NamedStrategies}

CallbackLeaves ==
    {CallbackAnimation(d, s, frame, noPredicate) :
        d \in Durations, s \in NamedStrategies}

ConstantLeaves ==
    {ConstantAnimationDefault(Num(1)), ConstantAnimation(Num(1), MaxDur)}

\* Tweens with an easing.
EasedLeaves ==
    {Tween(1, 3, d, e, s) :
        d \in Durations, e \in {"linear", "easeIn"},
        s \in {"clampTime", "wrapTime"}}

Leaves == TweenLeaves \cup EasedLeaves \cup CallbackLeaves \cup ConstantLeaves

\* The leaves used as children of the combinators.
KidLeaves ==
    {Tween(0, 1, d, "none", "clampTime") : d \in Durations}
    \cup {Tween(1, 3, MaxDur, "none", "wrapTime"),
          CallbackAnimation(1, "delegateTime", frame, noPredicate),
          ConstantAnimation(Num(1), DurationZero)}

Pairs(S) == {<<x, y>> : x \in S, y \in S}

FlatCombinators ==
    {ArrayAnimation(k, s) : k \in Pairs(KidLeaves), s \in NamedStrategies}
    \cup {SequenceAnimation(k, s) : k \in Pairs(KidLeaves), s \in NamedStrategies}

\* Combinators inside combinators, and derive() below a combinator.
InnerNodes ==
    {SequenceAnimation(<<Tween(0, 1, 1, "none", "clampTime"),
                         Tween(1, 3, MaxDur, "none", "clampTime")>>, s) :
        s \in {"clampTime", "wrapTime"}}
    \cup {DerivedAnimation(Tween(0, 1, MaxDur, "none", "clampTime"), "box"),
          DerivedAnimation(CallbackAnimation(1, "delegateTime", frame, noPredicate),
                           "unit")}

NestedCombinators ==
    {ArrayAnimation(<<x, k>>, s) :
        x \in InnerNodes, k \in KidLeaves, s \in NamedStrategies}
    \cup {ArrayAnimation(<<>>, s) : s \in NamedStrategies}
    \cup {ArrayAnimation(<<k, x, k>>, "clampTime") : x \in InnerNodes, k \in KidLeaves}
    \cup {SequenceAnimation(<<k, Tween(1, 3, 1, "easeIn", "resetToZeroTime"), k>>, s) :
            k \in KidLeaves, s \in {"clampTime", "resetToZeroInclusiveTime"}}
    \cup {SequenceAnimation(<<x, y>>, s) :
            x \in {ArrayAnimation(<<k>>, "clampTime") : k \in KidLeaves},
            y \in {ArrayAnimation(<<Tween(0, 1, 1, "none", "clampTime")>>, t) :
                     t \in {"clampTime", "delegateTime"}},
            s \in {"clampTime", "resetToZeroTime"}}

CoreTrees == Leaves \cup FlatCombinators \cup NestedCombinators

\* Lists of animations with start times, sorted by start time.
TimedKids ==
    {Tween(0, 1, MaxDur, "none", "clampTime"),
     Tween(1, 3, 1, "none", "clampTime"),
     Tween(1, 3, MaxDur, "none", "wrapTime"),
     CallbackAnimation(1, "delegateTime", frame, noPredicate),
     ConstantAnimation(Num(1), DurationZero)}

StartPairs == {<<0, 0>>, <<0, 1>>, <<0, MaxDur + 1>>, <<1, MaxDur>>}

TimedPairs ==
    {<<Timed(x, t[1]), Timed(y, t[2])>> :
        x \in TimedKids,
        y \in TimedKids \ {ConstantAnimation(Num(1), DurationZero)},
        t \in StartPairs}

SwitchTrees ==
    {SwitchAnimation(DurationAdd(l[2].time, e), l, s) :
        l \in TimedPairs, e \in {1, MaxDur}, s \in NamedStrategies}
    \cup {SwitchAnimation(e, <<Timed(k, t)>>, s) :
            k \in TimedKids, t \in {0, 1}, e \in {1, MaxDur + 1},
            s \in NamedStrategies}

WindowedTrees ==
    {WindowedAnimation(l, s) : l \in TimedPairs, s \in NamedStrategies}
    \cup {WindowedAnimation(<<>>, "clampTime")}

StaggeredTrees ==
    {StaggeredAnimation(k, s) : k \in Pairs(TimedKids), s \in NamedStrategies}
    \cup {StaggeredAnimation(<<k, Tween(0, 1, 1, "none", "clampTime"), k>>, "clampTime") :
            k \in TimedKids}
    \cup {StaggeredAnimation(<<>>, "clampTime")}

\* Animations with the assertTime strategy somewhere.
AssertTrees ==
    {Tween(0, 1, MaxDur, "none", "assertTime"),
     CallbackAnimation(1, "assertTime", frame, noPredicate),
     ArrayAnimation(<<Tween(0, 1, 1, "none", "assertTime"),
                      Tween(0, 1, MaxDur, "none", "clampTime")>>, "clampTime"),
     ArrayAnimation(<<Tween(0, 1, 1, "none", "clampTime"),
                      Tween(0, 1, MaxDur, "none", "clampTime")>>, "assertTime"),
     SequenceAnimation(<<Tween(0, 1, 1, "none", "clampTime"),
                         Tween(0, 1, 1, "none", "assertTime")>>, "delegateTime"),
     SwitchAnimation(MaxDur + 1,
                     <<Timed(Tween(0, 1, 1, "none", "clampTime"), 0),
                       Timed(Tween(1, 3, MaxDur, "none", "assertTime"), 1)>>,
                     "assertTime"),
     WindowedAnimation(<<Timed(Tween(0, 1, 1, "none", "assertTime"), 0),
                         Timed(Tween(1, 3, MaxDur, "none", "clampTime"), 1)>>,
                       "delegateTime"),
     StaggeredAnimation(<<Tween(0, 1, 1, "none", "clampTime"),
                          Tween(1, 3, MaxDur, "none", "clampTime")>>, "assertTime"),
     SwitchAnimation(MaxDur + 1,
                     <<Timed(Tween(0, 1, 1, "none", "clampTime"), 0),
                       Timed(Tween(1, 3, 1, "none", "assertTime"), 1)>>,
                     "clampTime"),
     WindowedAnimation(<<Timed(Tween(0, 1, 1, "none", "clampTime"), 0),
                         Timed(ArrayAnimation(
                                   <<Tween(0, 1, 1, "none", "assertTime"),
                                     Tween(0, 1, MaxDur, "none", "clampTime")>>,
                                   "clampTime"), 1)>>,
                       "clampTime"),
     StaggeredAnimation(<<ArrayAnimation(
                              <<Tween(0, 1, 1, "none", "assertTime"),
                                Tween(0, 1, MaxDur, "none", "clampTime")>>,
                              "clampTime"),
                          Tween(1, 3, 1, "none", "clampTime")>>, "clampTime")}

\* The animations extend() is called on.
ExtendTrees ==
    Leaves \cup InnerNodes \cup AssertTrees
    \cup {ArrayAnimation(<<k, k>>, s) : k \in KidLeaves, s \in NamedStrategies}
    \cup {SequenceAnimation(<<Tween(0, 1, 1, "none", "clampTime"), k>>, s) :
            k \in KidLeaves, s \in NamedStrategies}
    \cup {SwitchAnimation(MaxDur + 1,
                           <<Timed(Tween(0, 1, 1, "none", "clampTime"), 0),
                             Timed(k, 1)>>, s) :
            k \in TimedKids, s \in NamedStrategies}
    \cup {StaggeredAnimation(<<Tween(0, 1, 1, "none", "clampTime"), k>>, s) :
            k \in TimedKids, s \in NamedStrategies}

\* A bug: the gap is measured from the next start to the child's own start,
\* not to the child's end.
fillToFramesFromStart(end, timedAnimations) ==
    [i \in 1..Len(timedAnimations) |->
        LET element == timedAnimations[i]
            nextStart == IF i < Len(timedAnimations)
                         THEN timedAnimations[i + 1].time ELSE end
            difference ==
                DurationMax(DurationSubtract(nextStart, element.time), DurationZero)
        IN  Extend(element.value, DurationZero, difference, element.value.strategy)]

\* fillToFrames(end, timedAnimations)
fillToFrames(end, timedAnimations) ==
    [i \in 1..Len(timedAnimations) |->
        LET element == timedAnimations[i]
            nextStart == IF i < Len(timedAnimations)
                         THEN timedAnimations[i + 1].time ELSE end
            difference ==
                DurationMax(DurationSubtract(nextStart,
                                DurationAdd(element.time, element.value.duration)),
                            DurationZero)
        IN  Extend(element.value, DurationZero, difference, element.value.strategy)]

\* The arguments given to fillToFrames: an end and a non-empty list sorted by
\* start time that starts at zero, no child longer than the gap to the next
\* start (to the end, for the last).
FillKids ==
    TimedKids
    \cup {Tween(0, 1, 1, "none", s) :
            s \in {"resetToZeroTime", "resetToZeroInclusiveTime"}}
    \cup {CallbackAnimation(MaxDur, "wrapTime", frame, noPredicate)}

FillInputs ==
    {<<e, <<Timed(x, 0)>>>> : x \in FillKids, e \in 0..(MaxDur + 1)}
    \cup {<<s + g, <<Timed(x, 0), Timed(y, s)>>>> :
            x \in FillKids, y \in FillKids,
            s \in 0..(MaxDur + 1), g \in 0..(MaxDur + 1)}

FitsGaps(in) ==
    \A i \in 1..Len(in[2]) :
        in[2][i].time + in[2][i].value.duration
            <= (IF i < Len(in[2]) THEN in[2][i + 1].time ELSE in[1])

\* new SequenceAnimation(fillToFrames(end, timedAnimations))
FilledSequence(in) == SequenceAnimation(fillToFrames(in[1], in[2]), "clampTime")

FilledTrees == {FilledSequence(in) : in \in {x \in FillInputs : FitsGaps(x)}}

\* animationFromKeyframes(keyframes, lerp, easing, sequenceStrategy), lerp
\* being lerpNumber; the tweens take the default strategy of Tween.
animationFromKeyframes(keyframes, easing, sequenceStrategy) ==
    SequenceAnimation(
        [i \in 1..Len(keyframes) |->
            IF i = Len(keyframes)
            THEN ConstantAnimationDefault(Num(keyframes[i].value))
            ELSE Tween(keyframes[i].value, keyframes[i + 1].value,
                       DurationSubtract(keyframes[i + 1].time, keyframes[i].time),
                       easing, "clampTime")],
        sequenceStrategy)

\* Lists of one to three keyframes with increasing times, the first at 0 or
\* later.
KeyframeValues == {0, 1, 3}

KeyframeLists ==
    {<<Timed(v, t)>> : v \in KeyframeValues, t \in 0..1}
    \cup {<<Timed(v[1], t), Timed(v[2], t + g)>> :
            v \in KeyframeValues \X KeyframeValues, t \in 0..1, g \in 1..MaxDur}
    \cup {<<Timed(v[1], t), Timed(v[2], t + g[1]), Timed(v[3], t + g[1] + g[2])>> :
            v \in KeyframeValues \X KeyframeValues \X KeyframeValues,
            t \in 0..1, g \in (1..MaxDur) \X (1..MaxDur)}

KeyframeTrees ==
    {animationFromKeyframes(k, e, "clampTime") :
        k \in KeyframeLists, e \in {"linear", "easeIn"}}

\* Animations of painter lists: constant lists, and arrays and windows of
\* animations whose painter depends on the time.
brush == [fn |-> "brush"]

PainterKids ==
    {CallbackAnimation(d, s, brush, noPredicate) :
        d \in 1..MaxDur, s \in {"clampTime", "wrapTime"}}
    \cup {ConstantAnimationDefault([painter |-> 0])}

PainterLists ==
    {ConstantAnimationDefault([list |-> l]) :
        l \in {<<>>, <<[painter |-> 1]>>, <<[painter |-> 1], [painter |-> 0]>>,
               <<[painter |-> 0], [painter |-> 1], [painter |-> 0]>>}}
    \cup {ArrayAnimation(k, s) : k \in Pairs(PainterKids), s \in NamedStrategies}
    \cup {StaggeredAnimation(k, s) :
            k \in Pairs(PainterKids), s \in {"clampTime", "wrapTime"}}
    \cup {WindowedAnimation(<<Timed(x, 0), Timed(y, 1)>>, "clampTime") :
            x \in PainterKids, y \in PainterKids}

PaintTrees == {paintAll(P) : P \in PainterLists}

\* Painter animations for startWithEmpty: painters that change with the
\* time, constant painters (the no-op painter among them) and combined
\* painters.
isEqualTo == [fn |-> "isEqualTo"]

EmptySources ==
    {CallbackAnimation(d, s, brush, p) :
        d \in Durations, s \in NamedStrategies, p \in {noPredicate, isEqualTo}}
    \cup {ConstantAnimation(v, d) :
            v \in {[painter |-> 1], noopPainter}, d \in {DurationZero, MaxDur}}
    \cup {paintAll(ArrayAnimation(<<x, ConstantAnimationDefault([painter |-> 0])>>, s)) :
            x \in {CallbackAnimation(MaxDur, "clampTime", brush, noPredicate),
                   ConstantAnimation([painter |-> 1], MaxDur)},
            s \in {"clampTime", "wrapTime"}}

EmptyTrees == {startWithEmpty(source) : source \in EmptySources}

\* Animations given a strategy of the caller's.
CustomTrees ==
    {CallbackAnimation(d, "reverseTime", frame, noPredicate) : d \in Durations}
    \cup {Tween(e[1], e[2], d, "none", "reverseTime") :
            e \in {<<0, 1>>, <<1, 3>>}, d \in Durations}
    \cup {ArrayAnimation(k, "reverseTime") : k \in Pairs(KidLeaves)}
    \cup {SequenceAnimation(k, "reverseTime") : k \in Pairs(KidLeaves)}
    \cup {SwitchAnimation(DurationAdd(l[2].time, 1), l, "reverseTime") :
            l \in TimedPairs}
    \cup {WindowedAnimation(l, "reverseTime") : l \in TimedPairs}
    \cup {StaggeredAnimation(k, "reverseTime") : k \in Pairs(TimedKids)}
    \cup {DerivedAnimation(Tween(0, 1, MaxDur, "none", "reverseTime"), "box")}

Trees ==
    CoreTrees \cup SwitchTrees \cup WindowedTrees \cup StaggeredTrees
    \cup AssertTrees

(***************************************************************************)
(* The state machine.  An animation is built (Init), derive() may be       *)
(* called on it while still configuring, and then it is queried in any     *)
(* order: a call of at() or isSameAt() runs to completion and leaves its   *)
(* result, and the caller takes the result before it calls again.  `asked` *)
(* records that some query has returned before.                            *)
(***************************************************************************)
NoValue == [none |-> TRUE]

InitWith(trees) ==
    /\ anim \in trees
    /\ op = "build"
    /\ qa = 0
    /\ qb = 0
    /\ resVal = NoValue
    /\ resSame = FALSE
    /\ asked = FALSE
    /\ context = NoContext
    /\ calls = <<>>

Init == InitWith(CoreTrees)

InitSwitch == InitWith(SwitchTrees)

InitWindowed == InitWith(WindowedTrees \cup StaggeredTrees)

InitEval == InitWith(Trees)

InitExtend == InitWith(ExtendTrees)

InitCustom == InitWith(CustomTrees \cup Leaves)

InitFilled == InitWith(FilledTrees)

InitKeyframes == InitWith(KeyframeTrees)

InitPaint == InitWith(PaintTrees)

InitEmpty == InitWith(EmptyTrees)

Ready == op \in {"build", "derived", "extended", "idle"}

\* anim.derive(callback), replacing the animation under configuration.
DeriveCall(callback) ==
    /\ op = "build"
    /\ anim' = Derive(anim, callback)
    /\ op' = "derived"
    /\ UNCHANGED <<qa, qb, resVal, resSame, asked, context, calls>>

\* anim.extend({before, after}), the strategy parameter taking its default,
\* replacing the animation under configuration.
ExtendCall(before, after) ==
    /\ op = "build"
    /\ anim' = Extend(anim, before, after, anim.strategy)
    /\ op' = "extended"
    /\ UNCHANGED <<qa, qb, resVal, resSame, asked, context, calls>>

\* The painter invocations made while A.at(time) runs: those of a derive()
\* callback, applied to the value of the source; no other node calls a value.
RECURSIVE Invoked(_, _)
Invoked(A, time) ==
    IF A.kind # "Derived" \/ TransformThrows(A, time) THEN <<>>
    ELSE LET v == At(A.source, Transform(A, time))
         IN  Invoked(A.source, Transform(A, time))
                \o (IF IsError(v) THEN <<>> ELSE CallbackInvokes(A.callback, v))

\* The caller invokes the painter that at() returned: resVal(ctx).
PaintCall(ctx) ==
    /\ op = "at"
    /\ IsPainter(resVal)
    /\ op' = "paint"
    /\ context' = ctx
    /\ calls' = calls \o InvokePainter(resVal, ctx)
    /\ UNCHANGED <<anim, qa, qb, resVal, resSame, asked>>

\* A bug: at() writes the transformed instant into the node's duration.
AtQueryStoring(t) ==
    /\ Ready
    /\ op' = "at"
    /\ qa' = t
    /\ qb' = t
    /\ resVal' = At(anim, t)
    /\ resSame' = FALSE
    /\ anim' = [anim EXCEPT !.duration = Transform(anim, t)]
    /\ calls' = calls \o Invoked(anim, t)
    /\ UNCHANGED <<asked, context>>

\* anim.at(new Duration(t))
AtQuery(t) ==
    /\ Ready
    /\ op' = "at"
    /\ qa' = t
    /\ qb' = t
    /\ resVal' = At(anim, t)
    /\ resSame' = FALSE
    /\ calls' = calls \o Invoked(anim, t)
    /\ UNCHANGED <<anim, asked, context>>

\* anim.isSameAt(new Duration(a), new Duration(b))
IsSameAtQuery(a, b) ==
    /\ Ready
    /\ op' = "isSameAt"
    /\ qa' = a
    /\ qb' = b
    /\ IF IsSameAtThrows(anim, a, b)
       THEN resVal' = OutOfBounds /\ resSame' = FALSE
       ELSE resVal' = NoValue /\ resSame' = IsSameAt(anim, a, b)
    /\ UNCHANGED <<anim, asked, context, calls>>

\* The caller has taken the result of the last call.
Return ==
    /\ ~Ready
    /\ op' = "idle"
    /\ qa' = 0
    /\ qb' = 0
    /\ resVal' = NoValue
    /\ resSame' = FALSE
    /\ asked' = TRUE
    /\ context' = NoContext
    /\ calls' = <<>>
    /\ UNCHANGED anim

DoDerive == \E callback \in DeriveCallbacks : DeriveCall(callback)

DoExtend == \E before \in 0..MaxPad, after \in 0..MaxPad : ExtendCall(before, after)

DoAt == \E t \in Instants : AtQuery(t)

DoPaint == \E ctx \in Contexts : PaintCall(ctx)

DoIsSameAt == \E a \in Instants, b \in Instants : IsSameAtQuery(a, b)

Next == DoDerive \/ DoAt \/ DoIsSameAt \/ Return

\* Every node type, queried with at() only.
NextEval == DoDerive \/ DoAt \/ Return

Spec == Init /\ [][Next]_vars

SpecSwitch == InitSwitch /\ [][Next]_vars

SpecWindowed == InitWindowed /\ [][Next]_vars

SpecEval == InitEval /\ [][NextEval]_vars

\* at() alone, on animations with a strategy of the caller's too.
NextCustom == DoAt \/ Return

SpecCustom == InitCustom /\ [][NextCustom]_vars

\* at() on the sequences made of what fillToFrames returns.
SpecFilled == InitFilled /\ [][NextCustom]_vars

\* at() on the animations paintAll returns, and the painter it gives invoked.
NextPaint == DoAt \/ DoPaint \/ Return

SpecPaint == InitPaint /\ [][NextPaint]_vars

\* at() and isSameAt() on the animations startWithEmpty returns.
NextEmpty == DoAt \/ DoIsSameAt \/ Return

SpecEmpty == InitEmpty /\ [][NextEmpty]_vars

\* derive() or extend() in the configuration phase, then at().
NextWrapped == DoDerive \/ DoExtend \/ DoAt \/ Return

SpecWrapped == InitExtend /\ [][NextWrapped]_vars

\* at() on the animations animationFromKeyframes returns.
SpecKeyframes == InitKeyframes /\ [][NextCustom]_vars

\* extend() in the configuration phase, then at().
NextExtend == DoExtend \/ DoAt \/ Return

SpecExtend == InitExtend /\ [][NextExtend]_vars

(***************************************************************************)
(* Duration and the strategies on their own: new Duration(a).wrap(new       *)
(* Duration(max)), new Duration(a).clamp(Duration.zero, new Duration(max)) *)
(* and strategy(animation)(time); no animation tree is built.              *)
(***************************************************************************)
Frames == (0 - MaxFrame)..MaxFrame

InitDuration ==
    /\ anim = NoValue
    /\ op = "idle"
    /\ qa = 0
    /\ qb = 0
    /\ resVal = NoValue
    /\ resSame = FALSE
    /\ asked = FALSE
    /\ context = NoContext
    /\ calls = <<>>

WrapCall(a, max) ==
    /\ Ready
    /\ op' = "wrap"
    /\ qa' = a
    /\ qb' = max
    /\ resVal' = Num(DurationWrap(a, max))
    /\ UNCHANGED <<anim, resSame, asked, context, calls>>

ClampCall(a, max) ==
    /\ Ready
    /\ op' = "clamp"
    /\ qa' = a
    /\ qb' = max
    /\ resVal' = Num(DurationClamp(a, DurationZero, max))
    /\ UNCHANGED <<anim, resSame, asked, context, calls>>

\* strategy(animation)(new Duration(t)) for an animation of duration d: a
\* strategy reads nothing of the animation but its duration.
StrategyCall(strategy, d, t) ==
    /\ Ready
    /\ op' = "transform"
    /\ anim' = [kind |-> "Animation", duration |-> d, strategy |-> strategy]
    /\ qa' = t
    /\ qb' = t
    /\ resVal' = IF TransformThrows(anim', t) THEN OutOfBounds
                  ELSE Num(Transform(anim', t))
    /\ UNCHANGED <<resSame, asked, context, calls>>

DoWrap == \E a \in Frames, max \in 0..MaxFrame : WrapCall(a, max)

DoStrategy ==
    \E strategy \in NamedStrategies \cup {"assertTime"}, d \in Durations,
       t \in Instants : StrategyCall(strategy, d, t)

DoClamp == \E a \in Frames, max \in 0..MaxFrame : ClampCall(a, max)

NextDuration == DoWrap \/ DoClamp \/ DoStrategy \/ Return

SpecDuration == InitDuration /\ [][NextDuration]_vars

(***************************************************************************)
(* Properties.                                                             *)
(***************************************************************************)
RECURSIVE ZeroWrapFree(_)
\* No node of the tree has the wrapTime strategy with a zero duration.
ZeroWrapFree(A) ==
    /\ ~(A.strategy = "wrapTime" /\ A.duration = 0)
    /\ \A i \in 1..Len(Children(A)) : ZeroWrapFree(Children(A)[i])

RECURSIVE TotalDuration(_)
\* d0 + ... + dn of a list of animations.
TotalDuration(animations) ==
    IF animations = <<>> THEN 0
    ELSE Head(animations).duration + TotalDuration(Tail(animations))

\* start_k = d0 + ... + d(k-1)
StartOf(animations, k) == TotalDuration(SubSeq(animations, 1, k - 1))

RECURSIVE LongestDuration(_)
LongestDuration(animations) ==
    IF animations = <<>> THEN 0
    ELSE LET rest == LongestDuration(Tail(animations))
         IN  IF Head(animations).duration > rest
             THEN Head(animations).duration ELSE rest

SameReturned(b) == op = "isSameAt" /\ ~IsError(resVal) /\ resSame = b

\* C1: in a tree of Tween, Sequence, Array, Derived, Constant and Callback
\* nodes (no same-value predicate, named strategies, wrapTime only with a
\* positive duration), whenever isSameAt(a, b) returns true, at(a) and at(b)
\* are equal.
C1_IsSameAtSound ==
    (SameReturned(TRUE) /\ ZeroWrapFree(anim)) => At(anim, qa) = At(anim, qb)

\* C1 witness: an ArrayAnimation over a moving tween reports two instants that
\* its strategy maps to different instants as the same.
C1_Witness ==
    /\ SameReturned(TRUE)
    /\ anim.kind = "Array"
    /\ ZeroWrapFree(anim)
    /\ ~DurationIsEqualTo(Transform(anim, qa), Transform(anim, qb))
    /\ \E i \in 1..Len(anim.source) :
          /\ anim.source[i].kind = "Tween"
          /\ anim.source[i].duration > 0
          /\ anim.source[i].from # anim.source[i].to
    /\ At(anim, qa) = At(anim, qb)

\* C2: whenever isSameAt(a, b) of a SwitchAnimation (non-empty sorted list,
\* any named strategy) returns true, at(a) and at(b) are equal.
C2_SwitchIsSameAtSound ==
    (SameReturned(TRUE) /\ anim.kind = "Switch" /\ ZeroWrapFree(anim))
        => At(anim, qa) = At(anim, qb)

\* C3: whenever isSameAt(a, b) of a StaggeredAnimation or a WindowedAnimation
\* (named strategies, wrapTime only with a positive duration) returns true,
\* at(a) and at(b) are equal lists.
C3_WindowedIsSameAtSound ==
    (SameReturned(TRUE) /\ anim.kind \in {"Windowed", "Staggered"}
        /\ ZeroWrapFree(anim))
        => At(anim, qa) = At(anim, qb)

\* C4: A.derive(f).isSameAt(a, b) returns what A.isSameAt(a, b) returns, for
\* every animation A of the library.
C4_DeriveIsSameAt ==
    (op = "isSameAt" /\ anim.kind = "Derived" /\ ~IsError(resVal))
        => resSame = IsSameAt(anim.source, qa, qb)

\* C5: A.derive(f).at(t) is f(A.at(t)) (and fails when A.at(t) fails), and
\* A.derive(f) has A's duration and A's strategy.
C5_DeriveAt ==
    anim.kind = "Derived" =>
        /\ anim.duration = anim.source.duration
        /\ anim.strategy = anim.source.strategy
        /\ op = "at" =>
              LET v == At(anim.source, qa)
              IN  resVal = IF IsError(v) THEN v ELSE ApplyCallback(anim.callback, v)

\* C5 witness: at() of a derived SwitchAnimation that wraps, past its end.
C5_Witness ==
    /\ op = "at"
    /\ anim.kind = "Derived"
    /\ anim.callback = "box"
    /\ anim.source.kind = "Switch"
    /\ anim.strategy = "wrapTime"
    /\ qa > anim.duration
    /\ ~IsError(resVal)
    /\ resVal.arg = At(anim.source, qa)
    /\ resVal.arg # At(anim.source, anim.duration)

\* C6: a ConstantAnimation returns its value from at(t) for every t and true
\* from isSameAt(a, b) for every a and b; its duration is zero unless given.
C6_Constant ==
    anim.kind = "Constant" =>
        /\ op = "at" => resVal = anim.value
        /\ op = "isSameAt" => SameReturned(TRUE)
        /\ ConstantAnimationDefault(anim.value).duration = 0

\* C6 witness: isSameAt of a constant for an instant before zero and one past
\* its duration.
C6_Witness ==
    /\ anim.kind = "Constant"
    /\ SameReturned(TRUE)
    /\ qa < 0
    /\ qb > anim.duration

\* C7: a SequenceAnimation with clampTime has duration d0 + ... + dn, and at
\* every t with start_k <= t < start_k + d_k its value is children[k].at(t -
\* start_k).
C7_SequenceLaw ==
    (anim.kind = "Sequence" /\ anim.strategy = "clampTime") =>
        /\ anim.duration = TotalDuration(anim.animations)
        /\ op = "at" =>
              \A k \in 1..Len(anim.animations) :
                  LET start == StartOf(anim.animations, k)
                  IN  (start <= qa /\ qa < start + anim.animations[k].duration)
                          => resVal = At(anim.animations[k], qa - start)

\* C7 witness: an instant inside the window of the second child, whose value
\* is not what the first child has there.
C7_Witness ==
    /\ op = "at"
    /\ anim.kind = "Sequence"
    /\ anim.strategy = "clampTime"
    /\ Len(anim.animations) >= 2
    /\ anim.animations[1].duration > 0
    /\ qa > anim.animations[1].duration
    /\ qa < anim.animations[1].duration + anim.animations[2].duration
    /\ resVal = At(anim.animations[2], qa - anim.animations[1].duration)
    /\ resVal # At(anim.animations[1], qa)

\* C8: in a SequenceAnimation with clampTime, at the end of child k the value
\* is that of the next child with a positive duration at its instant 0; at
\* every t at or past the total duration it is the last child's value at the
\* last child's duration.
C8_SequenceBoundaries ==
    (op = "at" /\ anim.kind = "Sequence" /\ anim.strategy = "clampTime") =>
        LET n == Len(anim.animations)
            last == anim.animations[n]
        IN  /\ qa >= anim.duration => resVal = At(last, last.duration)
            /\ \A k \in 1..(n - 1) :
                  LET later == {j \in (k + 1)..n : anim.animations[j].duration > 0}
                  IN  (qa = StartOf(anim.animations, k + 1) /\ later # {})
                          => resVal = At(anim.animations[
                                            CHOOSE j \in later :
                                                \A i \in later : j <= i], 0)

\* C8 witness: the instant where the first child ends and the second starts,
\* the two having different values there.
C8_Witness ==
    /\ op = "at"
    /\ anim.kind = "Sequence"
    /\ anim.strategy = "clampTime"
    /\ Len(anim.animations) = 2
    /\ anim.animations[1].duration > 0
    /\ anim.animations[2].duration > 0
    /\ qa = anim.animations[1].duration
    /\ resVal = At(anim.animations[2], 0)
    /\ resVal # At(anim.animations[1], qa)

\* C9: with clampTime, the element of child c in at(t) of a Staggered or
\* Windowed animation is c.at(0) before c's window, c.at(c.duration) after
\* it, and c.at(t - start_c) inside it.
C9_WindowContribution ==
    (op = "at" /\ anim.kind \in {"Windowed", "Staggered"}
        /\ anim.strategy = "clampTime") =>
        /\ Len(resVal.list) = Len(Children(anim))
        /\ \A i \in 1..Len(Children(anim)) :
              LET c == Children(anim)[i]
                  start == IF anim.kind = "Windowed"
                           THEN anim.timedAnimations[i].time
                           ELSE StartOf(anim.animations, i)
              IN  resVal.list[i] =
                      IF qa < start THEN At(c, 0)
                      ELSE IF qa > start + c.duration THEN At(c, c.duration)
                      ELSE At(c, qa - start)

\* C10: an ArrayAnimation has the longest duration of its children (zero
\* when it has none), and at(t) is the list of each child's value at the
\* one transformed instant, in the children's order.
C10_Array ==
    anim.kind = "Array" =>
        /\ anim.duration = LongestDuration(anim.source)
        /\ op = "at" =>
              resVal = [list |-> [i \in 1..Len(anim.source) |->
                                    At(anim.source[i], Transform(anim, qa))]]

\* C10 witness: two children with different values, queried outside the
\* bounds of the array.
C10_Witness ==
    /\ op = "at"
    /\ anim.kind = "Array"
    /\ Len(anim.source) = 2
    /\ anim.duration > 0
    /\ qa > anim.duration
    /\ Transform(anim, qa) # qa
    /\ resVal.list[1] # resVal.list[2]
    /\ resVal.list[2] = At(anim.source[2], Transform(anim, qa))

\* C11: at(t) of a SwitchAnimation over a non-empty sorted list is
\* child_k.at(t' - start_k), t' the transformed instant and k the greatest
\* index with start_k <= t'; the child it evaluates never has a start time
\* greater than t'.
C11_SwitchActiveChild ==
    (op = "at" /\ anim.kind = "Switch" /\ Len(anim.timedAnimations) > 0) =>
        LET t == Transform(anim, qa)
            started == {i \in 1..Len(anim.timedAnimations) :
                          anim.timedAnimations[i].time <= t}
            k == CHOOSE i \in started : \A j \in started : j <= i
        IN  /\ anim.timedAnimations[getAnimAt(anim, t)].time <= t
            /\ started # {} =>
                  resVal = At(anim.timedAnimations[k].value,
                              t - anim.timedAnimations[k].time)

\* C12: a tween with duration d > 0 and clampTime evaluates at t to
\* from + (to - from) * e(clamp(t, 0, d) / d), e the easing (the identity when
\* absent): from for t <= 0, to for t >= d; from 50 to 250 in 60 frames gives
\* 50, 150, 250, 250 at 0, 30, 60, 90.
C12_Tween ==
    /\ At(Tween(50, 250, 60, "none", "clampTime"), 0) = [num |-> 50, den |-> 1]
    /\ At(Tween(50, 250, 60, "none", "clampTime"), 30) = [num |-> 150, den |-> 1]
    /\ At(Tween(50, 250, 60, "none", "clampTime"), 60) = [num |-> 250, den |-> 1]
    /\ At(Tween(50, 250, 60, "none", "clampTime"), 90) = [num |-> 250, den |-> 1]
    /\ (op = "at" /\ anim.kind = "Tween" /\ anim.duration > 0
            /\ anim.strategy = "clampTime") =>
          LET d == anim.duration
              c == IF qa < 0 THEN 0 ELSE IF qa > d THEN d ELSE qa
              pn == IF anim.easing = "easeIn" THEN c * c ELSE c
              pd == IF anim.easing = "easeIn" THEN d * d ELSE d
          IN  /\ DOMAIN resVal = {"num", "den"}
              /\ resVal.den > 0
              /\ resVal.num * pd
                    = (anim.from * pd + (anim.to - anim.from) * pn) * resVal.den
              /\ qa <= 0 => resVal = [num |-> anim.from, den |-> 1]
              /\ qa >= d => resVal = [num |-> anim.to, den |-> 1]

\* C12 witness: an eased tween strictly inside its duration, at a value that
\* is neither end and not what the progress without the easing gives.
C12_Witness ==
    /\ op = "at"
    /\ anim.kind = "Tween"
    /\ anim.strategy = "clampTime"
    /\ anim.easing = "easeIn"
    /\ 0 < qa
    /\ qa < anim.duration
    /\ resVal.num * anim.duration
          # (anim.from * anim.duration + (anim.to - anim.from) * qa) * resVal.den
    /\ resVal.num * anim.duration * anim.duration
          = (anim.from * anim.duration * anim.duration
                + (anim.to - anim.from) * qa * qa) * resVal.den

\* C13: a tween whose duration is zero, with no easing or the identity
\* easing, under the clamp, delegate, wrap and reset strategies, evaluates to
\* `to` at every instant.
C13_ZeroTween ==
    (op = "at" /\ anim.kind = "Tween" /\ anim.duration = 0
        /\ anim.easing \in {"none", "linear"}
        /\ anim.strategy \in {"clampTime", "delegateTime", "wrapTime",
                              "resetToZeroTime", "resetToZeroInclusiveTime"})
        => resVal = [num |-> anim.to, den |-> 1]

\* C13 witness: a zero-length tween that wraps, asked before zero; its value
\* is `to`, which is not `from`.
C13_Witness ==
    /\ op = "at"
    /\ anim.kind = "Tween"
    /\ anim.duration = 0
    /\ anim.strategy = "wrapTime"
    /\ anim.easing = "linear"
    /\ qa < 0
    /\ anim.from # anim.to
    /\ resVal = [num |-> anim.to, den |-> 1]

\* C14: for b > 0, a.wrap(b) lies in [0, b) and is congruent to a modulo b,
\* also for a negative a; for max >= 0, a.clamp(zero, max) lies in [0, max].
C14_WrapClamp ==
    /\ (op = "wrap" /\ qb > 0) =>
          /\ DOMAIN resVal = {"num", "den"}
          /\ resVal.den = 1
          /\ 0 <= resVal.num
          /\ resVal.num < qb
          /\ (resVal.num - qa) % qb = 0
    /\ (op = "clamp" /\ qb >= 0) =>
          /\ DOMAIN resVal = {"num", "den"}
          /\ resVal.den = 1
          /\ 0 <= resVal.num
          /\ resVal.num <= qb

\* C14 witness: a negative frame that is not a multiple of the bound, wrapped
\* into the bound.
C14_Witness ==
    /\ op = "wrap"
    /\ qa < 0
    /\ qb > 1
    /\ (0 - qa) % qb # 0
    /\ resVal = [num |-> qb - ((0 - qa) % qb), den |-> 1]

RECURSIVE NoErrorInside(_)
\* A value of at() with no error anywhere in it.
NoErrorInside(v) ==
    CASE "err" \in DOMAIN v -> FALSE
      [] "list" \in DOMAIN v -> \A i \in 1..Len(v.list) : NoErrorInside(v.list[i])
      [] "fn" \in DOMAIN v -> NoErrorInside(v.arg)
      [] OTHER -> TRUE

\* The children a combinator asks when its own instant t passed its
\* strategy, each with the instant it is asked at.
AskedChildren(A, t) ==
    LET u == Transform(A, t)
        n == Len(Children(A))
        Ask(i, time) == [child |-> Children(A)[i], time |-> time]
    IN  CASE A.kind = "Derived" -> {Ask(1, u)}
          [] A.kind = "Array" -> {Ask(i, Transform(A, u)) : i \in 1..n}
          [] A.kind = "Sequence" ->
                LET k == SequenceLoop(A.animations, u, 1)
                    c == IF k = 0 THEN n ELSE k
                IN  IF n = 0 THEN {}
                    ELSE {Ask(c, DurationSubtract(u, StartOf(A.animations, c)))}
          [] A.kind = "Switch" ->
                IF n = 0 THEN {}
                ELSE {Ask(getAnimAt(A, u),
                          DurationSubtract(u, A.timedAnimations[getAnimAt(A, u)].time))}
          [] A.kind \in {"Windowed", "Staggered"} ->
                {Ask(i, ApplyWindow(A.windows[i], u)) : i \in 1..n}
          [] OTHER -> {}

\* C15: at(t) of a node with assertTime fails with the out-of-bounds error
\* exactly when t < 0 or t > duration, and is the evaluation at t itself
\* otherwise; the error of a child asked by a combinator is the outcome of the
\* combinator's at(), which never returns a value with a failure inside.
C15_AssertTime ==
    op = "at" =>
        /\ anim.strategy = "assertTime" =>
              IF qa < 0 \/ qa > anim.duration
              THEN resVal = OutOfBounds
              ELSE /\ ~IsError(resVal)
                   /\ resVal = At([anim EXCEPT !.strategy = "delegateTime"], qa)
        /\ ~TransformThrows(anim, qa) =>
              \A e \in AskedChildren(anim, qa) :
                  IsError(At(e.child, e.time)) => resVal = At(e.child, e.time)
        /\ IsError(resVal) \/ NoErrorInside(resVal)

\* C15 witness: an ArrayAnimation that clamps, asked inside its bounds, whose
\* first child asserts and is out of its own bounds there while the second
\* has a value.
C15_Witness ==
    /\ op = "at"
    /\ anim.kind = "Array"
    /\ anim.strategy = "clampTime"
    /\ Len(anim.source) = 2
    /\ anim.source[1].strategy = "assertTime"
    /\ 0 <= qa
    /\ qa <= anim.duration
    /\ qa > anim.source[1].duration
    /\ ~IsError(At(anim.source[2], qa))
    /\ resVal = OutOfBounds

\* C16: for every duration d >= 0, zero included, and every instant t, the
\* clampTime, wrapTime, resetToZeroTime and resetToZeroInclusiveTime
\* transforms return an integer Duration.
C16_TransformsTotal ==
    (op = "at" /\ anim.duration >= 0
        /\ anim.strategy \in {"clampTime", "wrapTime", "resetToZeroTime",
                              "resetToZeroInclusiveTime"})
        => (Transform(anim, qa) \in Int /\ ~IsNaN(Transform(anim, qa)))

C18_QueriesPure ==
    [][/\ op' \in {"at", "isSameAt", "idle"} => anim' = anim
       /\ op' = "at" => resVal' = At(anim, qa')
       /\ (op' = "isSameAt" /\ ~IsError(resVal'))
             => resSame' = IsSameAt(anim, qa', qb')]_vars

\* C18 witness: after an earlier query has returned, isSameAt on a sequence
\* with the later instant first, answering as the tree does.
C18_Witness ==
    /\ asked
    /\ op = "isSameAt"
    /\ anim.kind = "Sequence"
    /\ Len(anim.animations) = 2
    /\ qa > qb
    /\ qb < 0
    /\ SameReturned(IsSameAt(anim, qa, qb))

\* C19: for every node type, SwitchAnimation, WindowedAnimation and
\* StaggeredAnimation included, isSameAt(a, b) returns true whenever the
\* node's strategy maps a and b to the same instant.
C19_SameInstant ==
    (op = "isSameAt" /\ ~IsError(resVal)
        /\ DurationIsEqualTo(Transform(anim, qa), Transform(anim, qb)))
        => resSame = TRUE

\* C20: whenever isSameAt(a, b) of an ArrayAnimation returns true, isSameAt(a,
\* b) of every child returns true for that same pair.
C20_ArrayChildren ==
    (SameReturned(TRUE) /\ anim.kind = "Array") =>
        \A i \in 1..Len(anim.source) : IsSameAt(anim.source[i], qa, qb)

\* C20 as amended: whenever isSameAt(a, b) of an ArrayAnimation returns true,
\* either its strategy maps a and b to the same instant, or isSameAt of every
\* child returns true for the pair of transformed instants.
C20_ArrayChildrenAmended ==
    (SameReturned(TRUE) /\ anim.kind = "Array") =>
        \/ DurationIsEqualTo(Transform(anim, qa), Transform(anim, qb))
        \/ \A i \in 1..Len(anim.source) :
              IsSameAt(anim.source[i], Transform(anim, qa), Transform(anim, qb))

\* C20 witness: an ArrayAnimation whose strategy maps the two instants to
\* different ones, with two children, the second answering true only because
\* the first pair of instants was transformed.
C20_Witness ==
    /\ SameReturned(TRUE)
    /\ anim.kind = "Array"
    /\ Len(anim.source) = 2
    /\ ~DurationIsEqualTo(Transform(anim, qa), Transform(anim, qb))
    /\ IsSameAt(anim.source[1], Transform(anim, qa), Transform(anim, qb))
    /\ IsSameAt(anim.source[2], Transform(anim, qa), Transform(anim, qb))
    /\ ~IsSameAt(anim.source[2], qa, qb)

\* C21: for every duration d >= 0 and every instant t, resetToZeroTime and
\* resetToZeroInclusiveTime return different instants if and only if t = d.
C21_ResetVariants ==
    (op = "transform"
        /\ anim.strategy \in {"resetToZeroTime", "resetToZeroInclusiveTime"}) =>
        LET other == IF anim.strategy = "resetToZeroTime"
                     THEN resetToZeroInclusiveTime(anim.duration, qa)
                     ELSE resetToZeroTime(anim.duration, qa)
        IN  (resVal # Num(other)) <=> (qa = anim.duration)

\* C21 as amended: resetToZeroTime and resetToZeroInclusiveTime return
\* different instants if and only if t = d and d > 0 (at t = d = 0 both
\* return zero).
C21_ResetVariantsAmended ==
    (op = "transform"
        /\ anim.strategy \in {"resetToZeroTime", "resetToZeroInclusiveTime"}) =>
        LET other == IF anim.strategy = "resetToZeroTime"
                     THEN resetToZeroInclusiveTime(anim.duration, qa)
                     ELSE resetToZeroTime(anim.duration, qa)
        IN  (resVal # Num(other)) <=> (qa = anim.duration /\ anim.duration > 0)

\* C21 witness: resetToZeroInclusiveTime at the end of a positive duration
\* returns zero where resetToZeroTime returns the end.
C21_Witness ==
    /\ op = "transform"
    /\ anim.strategy = "resetToZeroInclusiveTime"
    /\ anim.duration > 0
    /\ qa = anim.duration
    /\ resVal = [num |-> 0, den |-> 1]
    /\ resetToZeroTime(anim.duration, qa) = anim.duration

\* C22: resetToZeroInclusiveTime maps every t with 0 <= t <= duration, the
\* duration included, to t, and every t outside [0, duration] to zero.
C22_ResetInclusive ==
    (op = "transform" /\ anim.strategy = "resetToZeroInclusiveTime") =>
        resVal = IF 0 <= qa /\ qa <= anim.duration
                 THEN [num |-> qa, den |-> 1]
                 ELSE [num |-> 0, den |-> 1]

\* C23: during one call of at(t) a node applies its own time transform
\* exactly once: the value is what the node's evaluation gives on strategy(t),
\* also for a strategy that is not idempotent.
C23_TransformOnce ==
    (op = "at" /\ anim.kind # "Constant" /\ ~TransformThrows(anim, qa)) =>
        resVal = At([anim EXCEPT !.strategy = "delegateTime"], Transform(anim, qa))

\* The WindowedAnimation over the same children with start_i = d0 + ... +
\* d(i-1) and the same strategy.
WindowedOf(A) ==
    WindowedAnimation([i \in 1..Len(A.animations) |->
                          Timed(A.animations[i], StartOf(A.animations, i))],
                      A.strategy)

\* C24: a StaggeredAnimation and the WindowedAnimation over the same children
\* with the cumulative start times and the same strategy have the same
\* duration, the same list from at(t) and the same answer from isSameAt(a, b).
C24_StaggeredIsWindowed ==
    anim.kind = "Staggered" =>
        /\ anim.duration = WindowedOf(anim).duration
        /\ op = "at" => resVal = At(WindowedOf(anim), qa)
        /\ op = "isSameAt" =>
              /\ IsError(resVal) <=> IsSameAtThrows(WindowedOf(anim), qa, qb)
              /\ ~IsError(resVal) => resSame = IsSameAt(WindowedOf(anim), qa, qb)

\* C24 witness: two children, asked one frame into the window of the second,
\* whose element is the second child's value one frame in and nothing else.
C24_Witness ==
    /\ op = "at"
    /\ anim.kind = "Staggered"
    /\ Len(anim.animations) = 2
    /\ anim.animations[1].duration > 0
    /\ anim.animations[2].duration > 1
    /\ qa = anim.animations[1].duration + 1
    /\ resVal = At(WindowedOf(anim), qa)
    /\ resVal.list[2] = At(anim.animations[2], 1)
    /\ resVal.list[2] # At(anim.animations[2], 0)
    /\ resVal.list[2] # At(anim.animations[2], qa)

\* anim is the SequenceAnimation of fillToFrames(in[1], in[2]).
Returned(in) ==
    /\ anim.kind = "Sequence"
    /\ Len(anim.animations) = Len(in[2])
    /\ \A i \in 1..Len(in[2]) :
          /\ anim.animations[i].kind = "Callback"
          /\ anim.animations[i].callback.fn = "extend"
          /\ anim.animations[i].callback.source = in[2][i].value
    /\ anim = FilledSequence(in)

\* C25: for a non-empty sorted list L starting at 0 whose children fit their
\* gaps, fillToFrames(end, L) yields animations whose durations are next
\* start minus own start, their SequenceAnimation has the duration end, and
\* at every t in [0, end] its value is that of SwitchAnimation(end, L).
C25_FillToFrames ==
    \A in \in FillInputs :
        (Returned(in) /\ FitsGaps(in)) =>
            LET end == in[1]
                L == in[2]
            IN  /\ \A i \in 1..Len(L) :
                      anim.animations[i].duration =
                          (IF i < Len(L) THEN L[i + 1].time ELSE end) - L[i].time
                /\ anim.duration = end
                /\ (op = "at" /\ 0 <= qa /\ qa <= end)
                      => resVal = At(SwitchAnimation(end, L, "clampTime"), qa)

\* C25 as amended: the same, except that at t = end the two values may differ
\* when the last child has the wrapTime strategy and is shorter than the gap
\* to end.
C25_FillToFramesAmended ==
    \A in \in FillInputs :
        (Returned(in) /\ FitsGaps(in)) =>
            LET end == in[1]
                L == in[2]
                last == L[Len(L)]
            IN  /\ \A i \in 1..Len(L) :
                      anim.animations[i].duration =
                          (IF i < Len(L) THEN L[i + 1].time ELSE end) - L[i].time
                /\ anim.duration = end
                /\ (op = "at" /\ 0 <= qa /\ qa <= end
                        /\ ~(qa = end /\ last.value.strategy = "wrapTime"
                                /\ last.time + last.value.duration < end))
                      => resVal = At(SwitchAnimation(end, L, "clampTime"), qa)

\* C25 witness: two children, the second a moving one shorter than its gap,
\* asked in the filled part of the gap: the second child's final value, which
\* the first child does not have there.
C25_Witness ==
    /\ op = "at"
    /\ anim.kind = "Sequence"
    /\ Len(anim.animations) = 2
    /\ \A i \in 1..2 : /\ anim.animations[i].kind = "Callback"
                       /\ anim.animations[i].callback.fn = "extend"
    /\ anim.animations[1].duration > 0
    /\ anim.animations[2].callback.after > 0
    /\ anim.animations[2].callback.source.duration > 0
    /\ qa > anim.animations[1].duration + anim.animations[2].callback.source.duration
    /\ qa < anim.duration
    /\ resVal = At(anim.animations[2].callback.source,
                   qa - anim.animations[1].duration)
    /\ resVal # At(anim.animations[1].callback.source, qa)
    /\ resVal # At(anim.animations[2].callback.source, 0)

\* anim is what animationFromKeyframes returns for these keyframes and this
\* easing.
FromKeyframes(k, e) ==
    /\ anim.kind = "Sequence"
    /\ Len(anim.animations) = Len(k)
    /\ anim = animationFromKeyframes(k, e, "clampTime")

\* The eased progress (t - t0) / (t1 - t0) as a fraction.
EasedProgress(e, t, t0, t1) ==
    IF e = "easeIn"
    THEN [num |-> (t - t0) * (t - t0), den |-> (t1 - t0) * (t1 - t0)]
    ELSE [num |-> t - t0, den |-> t1 - t0]

\* C26: the animation returned by animationFromKeyframes for a non-empty list
\* of keyframes sorted by time (whatever the first time) evaluates at each
\* keyframe's time to that keyframe's value, and between two consecutive
\* keyframes to the lerp of their values.
C26_Keyframes ==
    \A k \in KeyframeLists, e \in {"linear", "easeIn"} :
        (op = "at" /\ FromKeyframes(k, e)) =>
            /\ \A i \in 1..Len(k) :
                  qa = k[i].time => resVal = [num |-> k[i].value, den |-> 1]
            /\ \A i \in 1..(Len(k) - 1) :
                  (k[i].time <= qa /\ qa <= k[i + 1].time) =>
                      LET p == EasedProgress(e, qa, k[i].time, k[i + 1].time)
                      IN  /\ DOMAIN resVal = {"num", "den"}
                          /\ resVal.num * p.den
                                = (k[i].value * p.den
                                    + (k[i + 1].value - k[i].value) * p.num)
                                  * resVal.den

\* The calls that invoking each painter of the list once, in list order, with
\* the context ctx makes.
EachOnceInOrder(value, ctx) ==
    [i \in 1..Len(value) |-> [painter |-> value[i].painter, context |-> ctx]]

\* C27: invoking the painter that paintAll(P).at(t) returned calls each
\* painter of the list P.at(t) exactly once, in list order, with the context
\* it was given, and calls nothing else; evaluating at() calls no painter.
C27_PaintAll ==
    /\ op = "at" => calls = <<>>
    /\ (op = "paint" /\ anim.kind = "Derived" /\ anim.callback = "paintAll") =>
          LET P == anim.source
          IN  /\ ~IsError(At(P, qa))
              /\ calls = EachOnceInOrder(At(P, qa).list, context)

\* A list of two different painters has been painted.
C27_Witness ==
    /\ op = "paint"
    /\ anim.callback = "paintAll"
    /\ Len(calls) = 2
    /\ calls[1].painter # calls[2].painter
    /\ context = "ctx2"

\* The instant is 0 or earlier.
NotAfterZero(t) == ~IsNaN(t) /\ t <= 0

\* C28: startWithEmpty(source).at(t) is the no-op painter when the transformed
\* instant is <= 0 and source.at(t) when it is > 0; isSameAt(a, b) returns
\* true only if at(a) and at(b) are the same painter, so never when exactly
\* one of the transformed instants is <= 0 and the source's painter at the
\* other is not the no-op painter.
C28_StartWithEmpty ==
    (anim.kind = "Callback" /\ anim.callback.fn = "startWithEmpty") =>
        LET source == anim.callback.source
            ta == Transform(anim, qa)
            tb == Transform(anim, qb)
        IN  /\ (op = "at" /\ ~IsError(resVal)) =>
                  /\ NotAfterZero(ta) => resVal = noopPainter
                  /\ DurationIsGreaterThan(ta, DurationZero) => resVal = At(source, qa)
            /\ (op = "isSameAt" /\ resSame) =>
                  /\ At(anim, qa) = At(anim, qb)
                  /\ ~(NotAfterZero(ta) /\ DurationIsGreaterThan(tb, DurationZero)
                          /\ At(source, qb) # noopPainter)
                  /\ ~(NotAfterZero(tb) /\ DurationIsGreaterThan(ta, DurationZero)
                          /\ At(source, qa) # noopPainter)

\* isSameAt of the source is true of two instants after 0, and one of them is
\* compared with 0, where startWithEmpty answers false.
C28_Witness ==
    /\ anim.kind = "Callback"
    /\ anim.callback.fn = "startWithEmpty"
    /\ op = "isSameAt"
    /\ qa = 0
    /\ qb = 1
    /\ ~resSame
    /\ resVal = NoValue
    /\ IsSameAt(anim.callback.source, qa, qb)
    /\ At(anim, qa) = noopPainter
    /\ At(anim, qb) = [painter |-> 1]

\* C29: a WindowedAnimation over a non-empty list sorted by start time lasts
\* at least until the end of every child's window, start_c + c.duration, so
\* that with clampTime at(duration) holds every child's value at its own
\* final instant c.duration.
C29_WindowedDuration ==
    (anim.kind = "Windowed" /\ Len(anim.timedAnimations) > 0) =>
        /\ \A i \in 1..Len(anim.timedAnimations) :
              anim.duration >= anim.timedAnimations[i].time
                                 + anim.timedAnimations[i].value.duration
        /\ (op = "at" /\ anim.strategy = "clampTime" /\ qa = anim.duration) =>
              /\ Len(resVal.list) = Len(anim.timedAnimations)
              /\ \A i \in 1..Len(anim.timedAnimations) :
                    LET c == anim.timedAnimations[i].value
                    IN  resVal.list[i] = At(c, c.duration)

\* The strategy of the node turns the instant into one it leaves alone.
AppliedOnce(A, t) ==
    /\ ~TransformThrows(A, Transform(A, t))
    /\ Transform(A, Transform(A, t)) = Transform(A, t)

\* C30: each named strategy is idempotent (for wrapTime when the duration is
\* not zero) on the instants where it does not fail; hence a derive() wrapper
\* hands the source's evaluation the instant one application gives, and an
\* extend() wrapper with the source's strategy calls the source at the once
\* transformed instant less the padding before, which without padding is the
\* source's own value.
C30_Idempotent ==
    (op = "at" /\ ~TransformThrows(anim, qa)
        /\ ~(anim.strategy = "wrapTime" /\ anim.duration = 0)) =>
        /\ AppliedOnce(anim, qa)
        /\ (anim.kind = "Derived" /\ anim.source.kind # "Constant") =>
              LET v == AtTransformed(anim.source, Transform(anim.source, qa))
              IN  resVal = IF IsError(v) THEN v ELSE ApplyCallback(anim.callback, v)
        /\ (anim.kind = "Callback" /\ anim.callback.fn = "extend") =>
              /\ resVal = At(anim.callback.source,
                             DurationSubtract(Transform(anim, qa), anim.callback.before))
              /\ (anim.callback.before = 0 /\ anim.callback.after = 0) =>
                    resVal = At(anim.callback.source, qa)

\* A derived animation under wrapTime was asked past its end, where a second
\* application of a strategy that is not idempotent would move the instant
\* again.
C30_Witness ==
    /\ op = "at"
    /\ anim.kind = "Derived"
    /\ anim.callback = "box"
    /\ anim.strategy = "wrapTime"
    /\ anim.duration = MaxDur
    /\ qa > 2 * anim.duration
    /\ Transform(anim, qa) # qa
    /\ ~IsError(resVal)

====
